---- MODULE Spec2Model ----
(***************************************************************************)
(* A state-machine model of WFPlayer (src/src/index.js): the process-wide  *)
(* registry of instances, the per-instance options bag and its validation, *)
(* seek, load, changeChannel, reset and destroy.  The collaborators that   *)
(* index.js imports (Decoder, Loader, Controller, utils) are modelled at   *)
(* their interface, as the specification describes them.                   *)
(*                                                                         *)
(* Numbers are kept in tenths (0.8 is 8, 50 is 500), so that the           *)
(* non-integer options and Number.isInteger can be told apart.  A          *)
(* JavaScript value is a record [t |-> its kind, v |-> its payload].       *)
(***************************************************************************)
EXTENDS Integers, Sequences, FiniteSets, TLC

\* ---------------------------------------------------------------- bounds
\* How many WFPlayer objects are ever constructed.
MaxInstances == 3
\* The largest second (whole seconds) the environment seeks to is MaxTime + 1.
MaxTime == 2
\* How many asynchronous decodes one decoder is asked for.
MaxGen == 2

VARIABLES
    id,            \* the module-level counter `let id = 0`
    instances,     \* the module-level array `const instances = []` (of objects)
    constructed,   \* how many WFPlayer objects exist (object k is the k-th built)
    wfid,          \* this.id of each object
    isDestroy,     \* this.isDestroy
    _currentTime,  \* this._currentTime
    options,       \* this.options
    decoder,       \* this.decoder
    loader,        \* this.loader
    controller,    \* this.controller
    media,         \* the media elements of the page: currentTime of each
    last,          \* the last call: which operation, on which object, what it threw
    calls          \* the collaborator calls the last call made, in order

vars == <<id, instances, constructed, wfid, isDestroy, _currentTime, options,
          decoder, loader, controller, media, last, calls>>

Objects == 1..MaxInstances

\* ---------------------------------------------------------------- values
Num(n) == [t |-> "number", v |-> 10 * n]
Tenths(n) == [t |-> "number", v |-> n]
Str == [t |-> "string", v |-> 0]
Bool(b) == [t |-> "boolean", v |-> IF b THEN 1 ELSE 0]
Null == [t |-> "null", v |-> 0]
Div == [t |-> "htmldivelement", v |-> 0]
Audio(e) == [t |-> "htmlaudioelement", v |-> e]
Undefined == [t |-> "undefined", v |-> 0]

IsInteger(v) == (v % 10) = 0

\* The media elements of the page.  Element 1 plays a URL; element 2 is fed
\* through srcObject, so its currentSrc is the empty string.  The duration of
\* element e is e seconds.
Elements == {1, 2}
currentSrc == [e \in Elements |-> IF e = 1 THEN <<"u">> ELSE <<>>]
mediaDuration == [e \in Elements |-> e]

\* ---------------------------------------------------------------- options
Keys == {"container", "mediaElement", "useWorker", "wave", "waveColor",
         "backgroundColor", "paddingColor", "cursor", "cursorColor", "progress",
         "progressColor", "grid", "gridColor", "ruler", "rulerColor",
         "rulerAtTop", "scrollable", "refreshDelay", "channel", "duration",
         "padding", "waveScale", "pixelRatio"}

\* Math.ceil of a number in tenths.
Ceil(v) == IF (v % 10) = 0 THEN v ELSE v + (10 - (v % 10))

\* WFPlayer.default; window.devicePixelRatio is taken as 1.5.
default ==
    [container |-> Str, mediaElement |-> Null, useWorker |-> Bool(TRUE),
     wave |-> Bool(TRUE), waveColor |-> Str, backgroundColor |-> Str,
     paddingColor |-> Str, cursor |-> Bool(TRUE), cursorColor |-> Str,
     progress |-> Bool(TRUE), progressColor |-> Str, grid |-> Bool(TRUE),
     gridColor |-> Str, ruler |-> Bool(TRUE), rulerColor |-> Str,
     rulerAtTop |-> Bool(TRUE), scrollable |-> Bool(FALSE),
     refreshDelay |-> Num(50), channel |-> Num(0), duration |-> Num(10),
     padding |-> Num(5), waveScale |-> Tenths(8), pixelRatio |-> Tenths(Ceil(15))]

\* checkNum(name, min, max, isInteger)(value, type): TRUE, or it throws (FALSE).
\* min and max are in tenths.
checkNum(min, max, isInteger, value) ==
    /\ value.t = "number"
    /\ value.v >= min /\ value.v <= max /\ (IF isInteger THEN IsInteger(value.v) ELSE TRUE)

\* WFPlayer.scheme: what each key accepts.
scheme(k, value) ==
    CASE k = "container" -> value.t \in {"htmlelement", "htmldivelement"}
      [] k = "mediaElement" -> value.t \in {"null", "htmlvideoelement", "htmlaudioelement"}
      [] k \in {"useWorker", "wave", "cursor", "progress", "grid", "ruler",
                "rulerAtTop", "scrollable"} -> value.t = "boolean"
      [] k \in {"waveColor", "backgroundColor", "paddingColor", "cursorColor",
                "progressColor", "gridColor", "rulerColor"} -> value.t = "string"
      [] k = "refreshDelay" -> checkNum(160, 10000, TRUE, value)
      [] k = "channel" -> checkNum(0, 50, TRUE, value)
      [] k = "duration" -> checkNum(10, 1000, TRUE, value)
      [] k = "padding" -> checkNum(10, 1000, TRUE, value)
      [] k = "waveScale" -> checkNum(1, 100, FALSE, value)
      [] k = "pixelRatio" -> checkNum(10, 100, FALSE, value)

\* validator(options, scheme): the options when every key passes, a throw otherwise.
validator(o) == \A k \in Keys : scheme(k, o[k])

\* { ...WFPlayer.default, ...this.options, ...options }: `mine` is this.options
\* ({} in the constructor), `given` the argument; each a function on some keys.
Spread(mine, given) ==
    [k \in Keys |-> IF k \in DOMAIN given THEN given[k]
                    ELSE IF k \in DOMAIN mine THEN mine[k] ELSE default[k]]

\* The empty object {}.
EmptyObject == [k \in {} |-> Null]

\* An argument of setOptions: an object (a function on some keys) or not one.
Arg(o) == [kind |-> "object", o |-> o]
NotAnObject == [kind |-> "string", o |-> EmptyObject]

\* update(): template.update() and drawer.update(), once both exist.
update(hasComponents) == IF hasComponents THEN <<"template.update", "drawer.update">> ELSE <<>>

\* setOptions as it would be if it stored the merged options before validating
\* them.
setOptionsResult_unvalidated(mine, hasComponents, arg) ==
    IF arg.kind # "object"
    THEN [err |-> "ConfigError", options |-> mine, calls |-> <<>>]
    ELSE LET merged == Spread(mine, arg.o) IN
         IF validator(merged)
         THEN [err |-> "none", options |-> merged, calls |-> update(hasComponents)]
         ELSE [err |-> "ConfigError", options |-> merged, calls |-> <<>>]

\* setOptions(options) on an object whose this.options is `mine`: what it
\* throws, the this.options it leaves, and the collaborator calls it made.
setOptionsResult(mine, hasComponents, arg) ==
    IF arg.kind # "object"
    THEN [err |-> "ConfigError", options |-> mine, calls |-> <<>>]
    ELSE LET merged == Spread(mine, arg.o) IN
         IF validator(merged)
         THEN [err |-> "none", options |-> merged, calls |-> update(hasComponents)]
         ELSE [err |-> "ConfigError", options |-> mine, calls |-> <<>>]

\* ---------------------------------------------------------------- decoder
\* The audio the environment can hand over: audio a has ChannelCount[a] channels.
Audios == {1, 2, 3}
ChannelCount == [a \in Audios |-> IF a = 3 THEN 7 ELSE a]
\* Byte streams: stream b of Audios decodes to audio b; stream 0 is malformed.
Bytes == {0} \cup Audios

NoPeaks == [audio |-> 0, channel |-> 0]
\* The peak table of one channel of one audio, named by what it was reduced from.
Peaks(a, ch) == [audio |-> a, channel |-> ch]

\* new Decoder(wf)
DecoderNew ==
    [state |-> "Empty", audio |-> 0, channel |-> 0, peaks |-> NoPeaks,
     gen |-> 0, pending |-> {}]

Min(a, b) == IF a < b THEN a ELSE b
Max(a, b) == IF a < b THEN b ELSE a

\* decoder.decodeSuccess(audiobuffer): stores the audio, reduces the configured
\* channel (clamped into the audio's channels) and becomes Ready.  `ch` is
\* options.channel in whole channels.
decodeSuccess(d, a, ch) ==
    LET c == Min(ch, ChannelCount[a] - 1) IN
    [d EXCEPT !.state = "Ready", !.audio = a, !.channel = c, !.peaks = Peaks(a, c)]

\* decoder.decodeAudioData(uint8): starts an asynchronous decode under a new
\* generation.
decodeAudioData(d, b) ==
    [d EXCEPT !.state = "Decoding", !.gen = d.gen + 1,
              !.pending = d.pending \cup {[gen |-> d.gen + 1, bytes |-> b]}]

\* Whether decoder.changeChannel(channel) is accepted: Ready, and an index of
\* the current audio.
canChangeChannel(d, value) ==
    /\ d.state = "Ready"
    /\ value.t = "number" /\ IsInteger(value.v)
    /\ value.v >= 0 /\ value.v < 10 * ChannelCount[d.audio]

\* decoder.changeChannel(channel), accepted.
decoderChangeChannel(d, value) ==
    [d EXCEPT !.channel = value.v \div 10, !.peaks = Peaks(d.audio, value.v \div 10)]

\* decoder.destroy(): releases the audio and its peak table.
decoderDestroy(d) ==
    [d EXCEPT !.state = "Empty", !.audio = 0, !.channel = 0, !.peaks = NoPeaks]

\* ---------------------------------------------------------------- arrays
\* indexOf as it would be if it counted from 1.
indexOf_fromOne(arr, x) ==
    IF \E n \in 1..Len(arr) : arr[n] = x
    THEN CHOOSE n \in 1..Len(arr) : arr[n] = x /\ \A m \in 1..(n - 1) : arr[m] # x
    ELSE -1

\* Array.prototype.indexOf: the first index (from 0) holding x, or -1.
indexOf(arr, x) ==
    IF \E n \in 1..Len(arr) : arr[n] = x
    THEN (CHOOSE n \in 1..Len(arr) : arr[n] = x /\ \A m \in 1..(n - 1) : arr[m] # x) - 1
    ELSE -1

\* Array.prototype.splice(start, deleteCount): a negative start counts from the
\* end of the array.
splice(arr, start, deleteCount) ==
    LET from == IF start < 0 THEN Max(Len(arr) + start, 0) ELSE Min(start, Len(arr))
        n == Min(Max(deleteCount, 0), Len(arr) - from)
    IN  SubSeq(arr, 1, from) \o SubSeq(arr, from + n + 1, Len(arr))

\* ---------------------------------------------------------------- state
NoCall == [op |-> "none", wf |-> 0, err |-> "none"]
Called(op, i, err) == [op |-> op, wf |-> i, err |-> err]

\* The module as loaded: no instance yet.  The per-object variables are
\* sequences, one entry per constructed object.
Init ==
    /\ id = 0
    /\ instances = <<>>
    /\ constructed = 0
    /\ wfid = <<>>
    /\ isDestroy = <<>>
    /\ _currentTime = <<>>
    /\ options = <<>>
    /\ decoder = <<>>
    /\ loader = <<>>
    /\ controller = <<>>
    /\ media = [e \in Elements |-> 0]
    /\ last = NoCall
    /\ calls = <<>>

Live == 1..constructed

\* new WFPlayer(options)
constructor(arg) ==
    /\ constructed < MaxInstances
    /\ LET r == setOptionsResult(EmptyObject, FALSE, arg)
           this == constructed + 1
       IN  IF r.err # "none"
           THEN /\ last' = Called("new", 0, r.err)
                /\ calls' = <<>>
                /\ UNCHANGED <<id, instances, constructed, wfid, isDestroy,
                               _currentTime, options, decoder, loader, controller, media>>
           ELSE /\ _currentTime' = Append(_currentTime, 0)
                /\ isDestroy' = Append(isDestroy, FALSE)
                /\ options' = Append(options, r.options)
                /\ decoder' = Append(decoder, DecoderNew)
                /\ controller' = Append(controller, "idle")
                /\ loader' = Append(loader, "idle")
                /\ id' = id + 1
                /\ wfid' = Append(wfid, id + 1)
                /\ instances' = Append(instances, this)
                /\ constructed' = this
                /\ last' = Called("new", this, "none")
                /\ calls' = r.calls \o update(TRUE)
                /\ UNCHANGED media

\* destroy()
destroy(i) ==
    /\ i \in Live
    /\ isDestroy' = [isDestroy EXCEPT ![i] = TRUE]
    /\ controller' = [controller EXCEPT ![i] = "idle"]   \* stops observing
    /\ decoder' = [decoder EXCEPT ![i] = decoderDestroy(decoder[i])]
    /\ loader' = [loader EXCEPT ![i] = "idle"]           \* drops its fetch
    /\ instances' = splice(instances, indexOf(instances, i), 1)
    /\ last' = Called("destroy", i, "none")
    /\ calls' = <<"events.destroy", "template.destroy", "controller.destroy",
                  "decoder.destroy", "loader.destroy", "drawer.destroy">>
    /\ UNCHANGED <<id, constructed, wfid, _currentTime, options, media>>

\* reset as it would be if it tore the instance down as destroy does.
reset_teardown(i) ==
    /\ i \in Live
    /\ destroy(i)

\* reset()
reset(i) ==
    /\ i \in Live
    /\ decoder' = [decoder EXCEPT ![i] = decoderDestroy(decoder[i])]
    /\ last' = Called("reset", i, "none")
    /\ calls' = <<"decoder.destroy">>
    /\ UNCHANGED <<id, instances, constructed, wfid, isDestroy, _currentTime,
                   options, loader, controller, media>>

\* setOptions(options)
setOptions(i, arg) ==
    /\ i \in Live
    /\ LET r == setOptionsResult(options[i], TRUE, arg) IN
       /\ options' = [options EXCEPT ![i] = r.options]
       /\ last' = Called("setOptions", i, r.err)
       /\ calls' = r.calls
    /\ UNCHANGED <<id, instances, constructed, wfid, isDestroy, _currentTime,
                   decoder, loader, controller, media>>

\* ---------------------------------------------------------------- playback
\* Whether this.options.mediaElement is truthy.
hasMedia(i) == options[i].mediaElement.t # "null"

\* A duration: a number of tenths of a second, or Infinity.
Finite(v) == [inf |-> FALSE, v |-> v]
Infinity == [inf |-> TRUE, v |-> 0]

\* get currentTime()
currentTime(i) ==
    IF hasMedia(i) THEN media[options[i].mediaElement.v] ELSE _currentTime[i]

\* get duration()
duration(i) ==
    IF hasMedia(i) THEN Finite(10 * mediaDuration[options[i].mediaElement.v]) ELSE Infinity

\* utils.clamp(num, a, b) = max(min(num, max(a, b)), min(a, b)), b a duration.
clamp(num, a, b) ==
    IF b.inf THEN Max(num, a) ELSE Max(Min(num, Max(a, b.v)), Min(a, b.v))

\* seek as it would be if it left the attached media element alone.
seek_internalOnly(i, second) ==
    /\ i \in Live
    /\ IF second.t # "number"
       THEN /\ last' = Called("seek", i, "TypeError")
            /\ calls' = <<>>
            /\ UNCHANGED _currentTime
       ELSE /\ _currentTime' = [_currentTime EXCEPT ![i] = clamp(second.v, 0, duration(i))]
            /\ last' = Called("seek", i, "none")
            /\ calls' = update(TRUE)
    /\ UNCHANGED <<id, instances, constructed, wfid, isDestroy, options, decoder,
                   loader, controller, media>>

\* seek(second)
seek(i, second) ==
    /\ i \in Live
    /\ IF second.t # "number"
       THEN /\ last' = Called("seek", i, "TypeError")
            /\ calls' = <<>>
            /\ UNCHANGED <<_currentTime, media>>
       ELSE LET t == clamp(second.v, 0, duration(i)) IN
            /\ _currentTime' = [_currentTime EXCEPT ![i] = t]
            /\ media' = IF hasMedia(i) /\ media[options[i].mediaElement.v] # t
                        THEN [media EXCEPT ![options[i].mediaElement.v] = t]
                        ELSE media
            /\ last' = Called("seek", i, "none")
            /\ calls' = update(TRUE)
    /\ UNCHANGED <<id, instances, constructed, wfid, isDestroy, options, decoder,
                   loader, controller>>

\* The page plays or scrubs media element e: its currentTime moves to t seconds.
MediaTick(e, t) ==
    /\ t \in 0..mediaDuration[e]
    /\ media[e] # 10 * t
    /\ media' = [media EXCEPT ![e] = 10 * t]
    /\ last' = Called("timeupdate", 0, "none")
    /\ calls' = <<>>
    /\ UNCHANGED <<id, instances, constructed, wfid, isDestroy, _currentTime,
                   options, decoder, loader, controller>>

\* exportImage()
exportImage(i) ==
    /\ i \in Live
    /\ last' = Called("exportImage", i, "none")
    /\ calls' = <<"template.exportImage">>
    /\ UNCHANGED <<id, instances, constructed, wfid, isDestroy, _currentTime,
                   options, decoder, loader, controller, media>>

\* ---------------------------------------------------------------- load
\* String.prototype.trim on a string of characters.
RECURSIVE TrimLeft(_)
TrimLeft(s) == IF s # <<>> /\ Head(s) = " " THEN TrimLeft(Tail(s)) ELSE s
RECURSIVE TrimRight(_)
TrimRight(s) ==
    IF s # <<>> /\ s[Len(s)] = " " THEN TrimRight(SubSeq(s, 1, Len(s) - 1)) ELSE s
trim(s) == TrimRight(TrimLeft(s))

\* What load can be handed.  kind: "null" (null or undefined), "object",
\* "element" (an HTMLVideoElement or HTMLAudioElement) or "string"; gcd: typeof
\* target.getChannelData === 'function'; buf: target.buffer is truthy.
Target(kind, gcd, buf, elem, s, audio, bytes) ==
    [kind |-> kind, gcd |-> gcd, buf |-> buf, elem |-> elem, s |-> s,
     audio |-> audio, bytes |-> bytes]
AudioBufferTarget(a) == Target("object", TRUE, FALSE, 0, <<>>, a, 0)
Uint8ArrayTarget(b) == Target("object", FALSE, TRUE, 0, <<>>, 0, b)
BothTarget(a, b) == Target("object", TRUE, TRUE, 0, <<>>, a, b)
ElementTarget(e) == Target("element", FALSE, FALSE, e, <<>>, 0, 0)
StringTarget(s) == Target("string", FALSE, FALSE, 0, s, 0, 0)
NullTarget == Target("null", FALSE, FALSE, 0, <<>>, 0, 0)
PlainObjectTarget == Target("object", FALSE, FALSE, 0, <<>>, 0, 0)

\* JavaScript truthiness of a target.
truthy(target) == target.kind # "null" /\ ~(target.kind = "string" /\ target.s = <<>>)

\* options.channel after the decoder stored audio a: clamped into its channels.
clampChannel(o, a) ==
    [o EXCEPT !.channel = Tenths(Min(o.channel.v, 10 * (ChannelCount[a] - 1)))]

\* load as it would be if it looked for target.buffer before getChannelData.
loadResult_bufferFirst(o, d, l, c, target) ==
    IF truthy(target) /\ target.buf
    THEN [err |-> "none", options |-> o, decoder |-> decodeAudioData(d, target.bytes),
          loader |-> l, controller |-> "observing",
          calls |-> <<"emit.load", "decoder.decodeAudioData", "controller.init">>]
    ELSE IF truthy(target) /\ target.gcd
    THEN [err |-> "none", options |-> clampChannel(o, target.audio),
          decoder |-> decodeSuccess(d, target.audio, o.channel.v \div 10),
          loader |-> l, controller |-> "observing",
          calls |-> <<"emit.load", "decoder.decodeSuccess", "controller.init">>]
    ELSE LET o1 == IF target.kind = "element"
                   THEN [o EXCEPT !.mediaElement = Audio(target.elem)] ELSE o
             url == IF target.kind = "element"
                    THEN StringTarget(currentSrc[target.elem]) ELSE target
         IN  IF url.kind = "string" /\ trim(url.s) # <<>>
             THEN [err |-> "none", options |-> o1, decoder |-> d, loader |-> "loading",
                   controller |-> "observing",
                   calls |-> <<"emit.load", "loader.load", "controller.init">>]
             ELSE [err |-> "InvalidTargetError", options |-> o1, decoder |-> d,
                   loader |-> l, controller |-> c, calls |-> <<"emit.load">>]

\* load(target): what it throws, the options, decoder, loader and controller
\* it leaves, and the calls it made.
loadResult(o, d, l, c, target) ==
    IF truthy(target) /\ target.gcd
    THEN [err |-> "none", options |-> clampChannel(o, target.audio),
          decoder |-> decodeSuccess(d, target.audio, o.channel.v \div 10),
          loader |-> l, controller |-> "observing",
          calls |-> <<"emit.load", "decoder.decodeSuccess", "controller.init">>]
    ELSE IF truthy(target) /\ target.buf
    THEN [err |-> "none", options |-> o, decoder |-> decodeAudioData(d, target.bytes),
          loader |-> l, controller |-> "observing",
          calls |-> <<"emit.load", "decoder.decodeAudioData", "controller.init">>]
    ELSE LET o1 == IF target.kind = "element"
                   THEN [o EXCEPT !.mediaElement = Audio(target.elem)] ELSE o
             url == IF target.kind = "element"
                    THEN StringTarget(currentSrc[target.elem]) ELSE target
         IN  IF url.kind = "string" /\ trim(url.s) # <<>>
             THEN [err |-> "none", options |-> o1, decoder |-> d, loader |-> "loading",
                   controller |-> "observing",
                   calls |-> <<"emit.load", "loader.load", "controller.init">>]
             ELSE [err |-> "InvalidTargetError", options |-> o1, decoder |-> d,
                   loader |-> l, controller |-> c, calls |-> <<"emit.load">>]

\* Whether load(target) starts an asynchronous decode.
startsDecode(target) == truthy(target) /\ ~target.gcd /\ target.buf

\* load(target)
load(i, target) ==
    /\ i \in Live
    /\ startsDecode(target) => decoder[i].gen < MaxGen
    /\ LET r == loadResult(options[i], decoder[i], loader[i], controller[i], target) IN
       /\ options' = [options EXCEPT ![i] = r.options]
       /\ decoder' = [decoder EXCEPT ![i] = r.decoder]
       /\ loader' = [loader EXCEPT ![i] = r.loader]
       /\ controller' = [controller EXCEPT ![i] = r.controller]
       /\ last' = Called("load", i, r.err)
       /\ calls' = r.calls
    /\ UNCHANGED <<id, instances, constructed, wfid, isDestroy, _currentTime, media>>

\* A resolving decode as it would be without the generation guard.
DecodeResolve_unguarded(i, p) ==
    /\ i \in Live
    /\ p \in decoder[i].pending
    /\ LET d == [decoder[i] EXCEPT !.pending = decoder[i].pending \ {p}] IN
       IF p.bytes = 0
       THEN /\ decoder' = [decoder EXCEPT ![i] = [d EXCEPT !.state = "Error"]]
            /\ options' = options
            /\ last' = Called("decoded", i, "DecodeError")
       ELSE /\ decoder' = [decoder EXCEPT ![i] =
                              decodeSuccess(d, p.bytes, options[i].channel.v \div 10)]
            /\ options' = [options EXCEPT ![i] = clampChannel(options[i], p.bytes)]
            /\ last' = Called("decoded", i, "none")
    /\ calls' = <<>>
    /\ UNCHANGED <<id, instances, constructed, wfid, isDestroy, _currentTime,
                   loader, controller, media>>

\* An asynchronous decode of decoder i resolves.  Only the newest generation's
\* result is kept; a malformed stream leaves the decoder in Error.
DecodeResolve(i, p) ==
    /\ i \in Live
    /\ p \in decoder[i].pending
    /\ LET d == [decoder[i] EXCEPT !.pending = decoder[i].pending \ {p}] IN
       IF p.gen # d.gen
       THEN /\ decoder' = [decoder EXCEPT ![i] = d]
            /\ options' = options
            /\ last' = Called("decoded", i, "stale")
       ELSE IF p.bytes = 0
       THEN /\ decoder' = [decoder EXCEPT ![i] = [d EXCEPT !.state = "Error"]]
            /\ options' = options
            /\ last' = Called("decoded", i, "DecodeError")
       ELSE /\ decoder' = [decoder EXCEPT ![i] =
                              decodeSuccess(d, p.bytes, options[i].channel.v \div 10)]
            /\ options' = [options EXCEPT ![i] = clampChannel(options[i], p.bytes)]
            /\ last' = Called("decoded", i, "none")
    /\ calls' = <<>>
    /\ UNCHANGED <<id, instances, constructed, wfid, isDestroy, _currentTime,
                   loader, controller, media>>

\* The fetch loader i started ends: with the bytes of stream b, handed to the
\* decoder, or (b = -1) with a LoadError.
LoaderResolve(i, b) ==
    /\ i \in Live
    /\ loader[i] = "loading"
    /\ b # -1 => decoder[i].gen < MaxGen
    /\ loader' = [loader EXCEPT ![i] = "idle"]
    /\ decoder' = IF b = -1 THEN decoder
                  ELSE [decoder EXCEPT ![i] = decodeAudioData(decoder[i], b)]
    /\ last' = Called("loaded", i, IF b = -1 THEN "LoadError" ELSE "none")
    /\ calls' = IF b = -1 THEN <<>> ELSE <<"decoder.decodeAudioData">>
    /\ UNCHANGED <<id, instances, constructed, wfid, isDestroy, _currentTime,
                   options, controller, media>>

\* changeChannel(channel)
changeChannel(i, channel) ==
    /\ i \in Live
    /\ IF ~canChangeChannel(decoder[i], channel)
       THEN /\ last' = Called("changeChannel", i, "InvalidChannelError")
            /\ calls' = <<>>
            /\ UNCHANGED <<decoder, options>>
       ELSE LET r == setOptionsResult(options[i], TRUE, Arg("channel" :> channel)) IN
            /\ decoder' = [decoder EXCEPT ![i] = decoderChangeChannel(decoder[i], channel)]
            /\ options' = [options EXCEPT ![i] = r.options]
            /\ last' = Called("changeChannel", i, r.err)
            /\ calls' = IF r.err = "none"
                        THEN <<"decoder.changeChannel">> \o r.calls \o update(TRUE)
                        ELSE <<"decoder.changeChannel">>
    /\ UNCHANGED <<id, instances, constructed, wfid, isDestroy, _currentTime,
                   loader, controller, media>>

\* ---------------------------------------------------------------- inputs
NumericKeys == {"refreshDelay", "channel", "duration", "padding", "waveScale", "pixelRatio"}

\* Values a numeric option is refused with: below its range, above it, not an
\* integer where one is required, not a number.
Refused(k) ==
    CASE k = "refreshDelay" -> {Num(5), Num(1001), Tenths(505), Str}
      [] k = "channel" -> {Num(-1), Num(6), Tenths(15), Str}
      [] k = "duration" -> {Num(0), Num(101), Tenths(15), Undefined}
      [] k = "padding" -> {Num(0), Num(101), Tenths(15), Str}
      [] k = "waveScale" -> {Tenths(0), Tenths(101), Str}
      [] k = "pixelRatio" -> {Tenths(9), Tenths(101), Str}

\* Values an option is accepted with.
Accepted(k) ==
    CASE k = "refreshDelay" -> {Num(16), Num(50)}
      [] k = "channel" -> {Num(0), Num(1)}
      [] k = "duration" -> {Num(10), Num(100)}
      [] k = "padding" -> {Num(5), Num(1)}
      [] k = "waveScale" -> {Tenths(1), Tenths(8)}
      [] k = "pixelRatio" -> {Tenths(20), Tenths(15)}
      [] k = "mediaElement" -> {Null} \cup {Audio(e) : e \in Elements}

\* Arguments of setOptions with a refused numeric option, alone or beside
\* accepted ones.
RefusedArgs ==
    UNION {{Arg(k :> v) : v \in Refused(k)} : k \in NumericKeys}
    \cup {Arg((k :> Str) @@ ("channel" :> Num(1)) @@ ("mediaElement" :> Audio(1)))
            : k \in NumericKeys \ {"channel"}}

AcceptedArgs ==
    UNION {{Arg(k :> v) : v \in Accepted(k)} : k \in NumericKeys \cup {"mediaElement"}}

OptionArgs ==
    RefusedArgs \cup AcceptedArgs
    \cup {NotAnObject, Arg(EmptyObject), Arg("mediaElement" :> Div), Arg("wave" :> Str)}

\* The arguments of setOptions that playback and decoding depend on.
PlaybackArgs ==
    {Arg("mediaElement" :> v) : v \in Accepted("mediaElement")}
    \cup {Arg("channel" :> Num(n)) : n \in {0, 1, 6}}

\* Arguments of the constructor.
CtorArgs ==
    {Arg(EmptyObject), NotAnObject, Arg("container" :> Div), Arg("container" :> Null),
     Arg(("container" :> Div) @@ ("channel" :> Num(1))),
     Arg(("container" :> Div) @@ ("refreshDelay" :> Num(5)))}

\* Arguments of seek.
Seconds == {Num(n) : n \in (-1)..(MaxTime + 1)} \cup {Tenths(5), Str}

\* ---------------------------------------------------------------- specifications
\* The registry: instances are constructed, reset and destroyed, in any order
\* and any number of times.
NextRegistry ==
    \/ \E arg \in CtorArgs : constructor(arg)
    \/ \E i \in Live : destroy(i)
    \/ \E i \in Live : reset(i)

SpecRegistry == Init /\ [][NextRegistry]_vars

\* The registry when no instance is destroyed twice.
NextLifecycle ==
    \/ \E arg \in CtorArgs : constructor(arg)
    \/ \E i \in Live : ~isDestroy[i] /\ destroy(i)
    \/ \E i \in Live : reset(i)

SpecLifecycle == Init /\ [][NextLifecycle]_vars

\* One instance, after new WFPlayer({container: div}).
InitPlayer ==
    /\ id = 1
    /\ instances = <<1>>
    /\ constructed = 1
    /\ wfid = <<1>>
    /\ isDestroy = <<FALSE>>
    /\ _currentTime = <<0>>
    /\ options = <<setOptionsResult(EmptyObject, FALSE, Arg("container" :> Div)).options>>
    /\ decoder = <<DecoderNew>>
    /\ loader = <<"idle">>
    /\ controller = <<"idle">>
    /\ media = [e \in Elements |-> 0]
    /\ last = Called("new", 1, "none")
    /\ calls = update(TRUE)

\* The options of one instance.
NextOptions ==
    \/ \E i \in Live, arg \in OptionArgs : setOptions(i, arg)
    \/ \E i \in Live : exportImage(i)

SpecOptions == InitPlayer /\ [][NextOptions]_vars

\* Playback of one instance.
Next ==
    \/ \E i \in Live, arg \in PlaybackArgs : setOptions(i, arg)
    \/ \E i \in Live, second \in Seconds : seek(i, second)
    \/ \E e \in Elements, t \in 0..MaxTime : MediaTick(e, t)
    \/ \E i \in Live : load(i, AudioBufferTarget(2))
    \/ \E i \in Live : reset(i)

Spec == InitPlayer /\ [][Next]_vars

\* What load is handed.
Strings == {<<>>, <<" ", " ">>, <<" ", "u", " ">>}
Targets ==
    {AudioBufferTarget(a) : a \in {2, 3}} \cup {Uint8ArrayTarget(2), BothTarget(3, 2)}
    \cup {ElementTarget(e) : e \in Elements} \cup {StringTarget(str) : str \in Strings}
    \cup {NullTarget, PlainObjectTarget}

\* What changeChannel is handed.
Channels == {Num(n) : n \in {-1, 0, 1, 5, 6, 7}} \cup {Tenths(5), Str}

\* Loading and channel selection of one instance.
NextLoad ==
    \/ \E i \in Live, target \in Targets : load(i, target)
    \/ \E i \in Live, channel \in Channels : changeChannel(i, channel)
    \/ \E i \in Live, n \in {0, 1, 5, 6} : setOptions(i, Arg("channel" :> Num(n)))
    \/ \E i \in Live : reset(i)
    \/ \E i \in Live : \E p \in decoder[i].pending : DecodeResolve(i, p)
    \/ \E i \in Live, b \in {-1, 2} : LoaderResolve(i, b)

SpecLoad == InitPlayer /\ [][NextLoad]_vars

\* Byte streams handed to one instance in quick succession, their decodes
\* resolving in any order.
NextDecode ==
    \/ \E i \in Live, b \in Bytes : load(i, Uint8ArrayTarget(b))
    \/ \E i \in Live : load(i, AudioBufferTarget(2))
    \/ \E i \in Live : \E p \in decoder[i].pending : DecodeResolve(i, p)
    \/ \E i \in Live : reset(i)

SpecDecode == InitPlayer /\ [][NextDecode]_vars

\* ---------------------------------------------------------------- registry claims
\* C1 (as claimed): a second destroy() of an instance leaves the registry as
\* the first destroy() left it, and isDestroy stays true.
C1_SecondDestroyNoEffect ==
    [][\A i \in Objects :
         (i \in Live /\ isDestroy[i] /\ destroy(i))
            => (instances' = instances /\ isDestroy'[i])]_vars

\* C6: while no instance is destroyed twice, the registry holds exactly the
\* constructed, not yet destroyed instances, each once, and their ids differ.
C6_RegistryIsLive ==
    /\ \A n \in 1..Len(instances) : instances[n] \in Live /\ ~isDestroy[instances[n]]
    /\ \A i \in Live : ~isDestroy[i] => \E n \in 1..Len(instances) : instances[n] = i
    /\ \A n, m \in 1..Len(instances) : instances[n] = instances[m] => n = m
    /\ \A i, j \in Live : wfid[i] = wfid[j] => i = j

\* The first of two instances was destroyed, the second is live, and a
\* constructor call has just failed validation.
C6_Witness ==
    /\ constructed = 2
    /\ isDestroy[1] /\ ~isDestroy[2]
    /\ instances = <<2>>
    /\ last = Called("new", 0, "ConfigError")

\* ---------------------------------------------------------------- option and playback claims
\* The clamp of the claim: s held within [0, the duration].
Clamped(s, d) == IF s < 0 THEN 0 ELSE IF ~d.inf /\ s > d.v THEN d.v ELSE s

C3_RefusedOptionsLeaveOptions ==
    [][\A i \in Objects, arg \in RefusedArgs :
         (i \in Live /\ setOptions(i, arg))
            => (last'.err = "ConfigError" /\ options' = options /\ calls' = <<>>)]_vars

\* setOptions has just thrown on an instance whose options had been changed
\* from the ones it was constructed with.
C3_Witness ==
    /\ last = Called("setOptions", 1, "ConfigError")
    /\ calls = <<>>
    /\ options[1].refreshDelay = Num(16)
    /\ options[1].waveScale = Tenths(1)
    /\ options[1].mediaElement = Audio(2)

\* C10: reset() empties the decoder and leaves isDestroy, the registry, the
\* options, _currentTime, the media elements, the loader and the controller as
\* they were; a load that follows it is accepted.
C10_ResetKeepsInstance ==
    [][\A i \in Objects :
         /\ (i \in Live /\ reset(i))
               => /\ decoder'[i].state = "Empty" /\ decoder'[i].audio = 0
                  /\ decoder'[i].peaks = NoPeaks
                  /\ ~isDestroy'[i]
                  /\ instances' = instances /\ isDestroy' = isDestroy
                  /\ options' = options /\ _currentTime' = _currentTime
                  /\ media' = media /\ loader' = loader /\ controller' = controller
         /\ (i \in Live /\ last = Called("reset", i, "none") /\ load(i, AudioBufferTarget(2)))
               => (last'.err = "none" /\ decoder'[i].state = "Ready")]_vars

\* reset() has just run on an instance that had loaded audio, sought, changed
\* its channel and attached a media element.
C10_Witness ==
    /\ last = Called("reset", 1, "none")
    /\ controller[1] = "observing"
    /\ decoder[1].state = "Empty"
    /\ hasMedia(1) /\ _currentTime[1] > 0 /\ options[1].channel = Num(1)
    /\ instances = <<1>>

\* ---------------------------------------------------------------- load and channel claims
\* C4 (as claimed): a changeChannel that fails leaves the decoder's channel and
\* peak table and options.channel as they were.
C4_FailedChangeChannelMutatesNothing ==
    [][\A i \in Objects, channel \in Channels :
         (i \in Live /\ changeChannel(i, channel) /\ last'.err # "none")
            => /\ decoder'[i].channel = decoder[i].channel
               /\ decoder'[i].peaks = decoder[i].peaks
               /\ options'[i].channel = options[i].channel]_vars

\* C5 (as claimed): a load that fails leaves the options, the decoder, the
\* loader and the controller as they were.
C5_FailedLoadMutatesNothing ==
    [][\A i \in Objects, target \in Targets :
         (i \in Live /\ load(i, target) /\ last'.err # "none")
            => /\ options' = options
               /\ decoder' = decoder /\ loader' = loader /\ controller' = controller]_vars

\* C7 (as claimed): while audio is decoded, options.channel is one of its
\* channels.
C7_ChannelWithinAudio ==
    \A i \in Live :
        decoder[i].audio # 0 => options[i].channel.v < 10 * ChannelCount[decoder[i].audio]

\* C8: a decode that resolves after a newer one was asked for changes neither
\* the audio nor its peak table nor the decoder's state; the newest one's
\* audio is the one stored.
C8_OnlyNewestDecodeRetained ==
    [][\A i \in Objects :
         i \in Live =>
           \A p \in decoder[i].pending :
             DecodeResolve(i, p) =>
               IF p.gen < decoder[i].gen
               THEN /\ decoder'[i].audio = decoder[i].audio
                    /\ decoder'[i].peaks = decoder[i].peaks
                    /\ decoder'[i].state = decoder[i].state
               ELSE p.bytes # 0 => (decoder'[i].audio = p.bytes /\ decoder'[i].state = "Ready")]_vars

\* The second of two decodes resolved first and its audio is stored; the first
\* has just resolved and was dropped.
C8_Witness ==
    /\ last = Called("decoded", 1, "stale")
    /\ decoder[1].gen = 2
    /\ decoder[1].pending = {}
    /\ decoder[1].state = "Ready" /\ decoder[1].audio = 2

\* How often x is among the calls.
Count(seq, x) == Cardinality({n \in 1..Len(seq) : seq[n] = x})

\* The shapes load accepts.
AcceptedTargets ==
    {AudioBufferTarget(a) : a \in {2, 3}} \cup {Uint8ArrayTarget(2), BothTarget(3, 2)}
    \cup {ElementTarget(1), StringTarget(<<" ", "u", " ">>)}

\* C9: a load of an accepted shape does not fail; a load that does not fail
\* emits 'load', then starts exactly one of the three source paths, then calls
\* controller.init once; a target with getChannelData and buffer is decoded as
\* a buffer and starts no asynchronous decode.
C9_LoadStartsOnePath ==
    [][\A i \in Objects, target \in Targets :
         (i \in Live /\ load(i, target))
            => /\ target \in AcceptedTargets => last'.err = "none"
               /\ last'.err = "none"
                    => /\ Len(calls') = 3
                       /\ calls'[1] = "emit.load"
                       /\ calls'[3] = "controller.init"
                       /\ Count(calls', "decoder.decodeSuccess")
                            + Count(calls', "decoder.decodeAudioData")
                            + Count(calls', "loader.load") = 1
                       /\ controller'[i] = "observing"
               /\ (truthy(target) /\ target.gcd /\ target.buf)
                    => /\ calls'[2] = "decoder.decodeSuccess"
                       /\ decoder'[i].pending = decoder[i].pending
                       /\ decoder'[i].audio = target.audio]_vars

\* A media element with a source has just been loaded: the loader fetches, the
\* controller observes, while an earlier byte stream is still being decoded.
C9_Witness ==
    /\ last = Called("load", 1, "none")
    /\ calls = <<"emit.load", "loader.load", "controller.init">>
    /\ options[1].mediaElement = Audio(1)
    /\ loader[1] = "loading"
    /\ decoder[1].pending # {}

====
